---------------------------- MODULE Spec2Model ----------------------------
(***************************************************************************)
(* A model of tspgen: the clustered instance generator                     *)
(* (src/src/generation.rs), the TSP decision-diagram model                 *)
(* (src/src/resolution/model.rs) and the solve command                     *)
(* (src/src/resolution/mod.rs).                                            *)
(*                                                                         *)
(* Seven specifications share the module's variables:                      *)
(*   SpecGen   - one run of GenerateInstance::generate;                    *)
(*   Spec      - layers of TspState built by transition and merge;         *)
(*   SpecSolve - the branch-and-bound solve of one instance;               *)
(*   SpecPar   - the same solve by several worker threads;                 *)
(*   SpecRank  - TspRanking applied to pairs of states;                    *)
(*   SpecKey   - GenerateInstance::rng applied to seeds of several bytes;  *)
(*   SpecPath  - one path of the exact decision diagram.                   *)
(* Each specification holds the variables of the other two at their idle   *)
(* values.                                                                 *)
(***************************************************************************)
EXTENDS Integers, Sequences, FiniteSets, TLC

VARIABLES
    \* ---- generation.rs: GenerateInstance and one run of generate()
    command,        \* the program run: GenerateInstance or main.rs's TspGen
    oracle,         \* the routing oracle: one that snaps, or the identity
    gpc,            \* position in generate()
    nb_cities,      \* GenerateInstance.nb_cities
    nb_centroids,   \* GenerateInstance.nb_centroids
    force_routable, \* GenerateInstance.force_routable
    duration,       \* GenerateInstance.duration
    seed,           \* GenerateInstance.seed (NoSeed models None)
    clock,          \* the wall clock's millisecond count read by rng()
    rng,            \* the ChaChaRng: its key and its position in the stream
    cipher_key,     \* the 32 bytes rng() hands to ChaChaRng::from_seed
    centroids,      \* the local `centroids` of generate()
    destinations,   \* the local `destinations` of generate()
    requests,       \* the requests sent to the routing oracle, in order
    distances,      \* the matrix returned by travel_distance_matrix
    \* ---- resolution/model.rs: one decision diagram built layer by layer
    nb_variables,   \* TspModel::nb_variables(): the number of destinations
    width,          \* the maximum width of a layer
    layer,          \* the states of the current layer
    relaxed,        \* the states of the layer that merge returned
    edges,          \* the transitions that built the layer: src, decision, dst
    merged,         \* the last merge of the layer: its inputs and its result
    ranked,         \* the last two states TspRanking compared, and the Ordering
    decided,        \* the decisions of one path of the exact diagram, in order
    \* ---- resolution/mod.rs: one run of the solver on one instance
    spc,            \* position in the solve
    instance,       \* TspModel.instance: the number of destinations, the matrix
    frontier,       \* the subproblems still to explore: state, value, ub
    best_value,     \* Completion.best_value: the incumbent, or none
    is_exact,       \* Completion.is_exact
    expired,        \* the time budget was found expired
    sub,            \* the subproblem being explored
    dd,             \* the current layer of the diagram being compiled
    inexact,        \* a layer of the diagram was restricted or merged
    cutset,         \* the last exact layer of the relaxed diagram
    bound,          \* the last completed relaxed diagram: its root, its best value
    stdout,         \* the lines Solve::execute has printed
    workers         \* the engine's worker threads: position, subproblem, findings

genVars == <<command, oracle, gpc, nb_cities, nb_centroids, force_routable, duration, seed,
             clock, rng, cipher_key, centroids, destinations, requests, distances>>

ddVars == <<nb_variables, width, layer, relaxed, edges, merged, ranked, decided>>

solveVars == <<spc, instance, frontier, best_value, is_exact, expired, sub,
               dd, inexact, cutset, bound, stdout, workers>>

vars == <<genVars, ddVars, solveVars>>

-----------------------------------------------------------------------------
(* Bounds of the model.                                                    *)

MaxCities == 11
MaxCentroids == 3
MaxSeed == 1
MaxClock == 1
MaxN == 5
MaxWidth == 3
MaxDestinations == 4
MaxCoord == 2
MaxOneWay == 1
NbWorkers == 2
MaxRanked == 2
MaxKeySeed == 300
MaxPathN == 5

-----------------------------------------------------------------------------
(* Helpers.                                                                *)

NoSeed == -1

Max(S) == CHOOSE x \in S : \A y \in S : y <= x

Min(S) == CHOOSE x \in S : \A y \in S : x <= y

-----------------------------------------------------------------------------
(* resolution/model.rs                                                     *)

\* The capacity of smallbitset's Set64.
SetBits == 64

\* Set64::full()
Set64Full == 0..(SetBits - 1)

None == -1

\* initial_state that does not owe the return to city 0.
initial_state_without_start(nv) ==
    [depth |-> 0,
     current |-> {0},
     must_visit |-> 1..(nv - 1),
     might_visit |-> {}]

\* TspModel::initial_state
initial_state(nv) ==
    [depth |-> 0,
     current |-> {0},
     must_visit |-> 0..(nv - 1),
     might_visit |-> {}]

\* transition that keeps the previous cities in `current`.
transition_keeps_current(state, decision) ==
    [depth |-> state.depth + 1,
     current |-> state.current \cup {decision.value},
     must_visit |-> state.must_visit \ {decision.value},
     might_visit |-> state.might_visit \ {decision.value}]

\* transition that forgets to remove the visited city from must_visit.
transition_keeps_must(state, decision) ==
    [depth |-> state.depth + 1,
     current |-> {decision.value},
     must_visit |-> state.must_visit,
     might_visit |-> state.might_visit \ {decision.value}]

\* TspModel::transition
transition(state, decision) ==
    [depth |-> state.depth + 1,
     current |-> {decision.value},
     must_visit |-> state.must_visit \ {decision.value},
     might_visit |-> state.might_visit \ {decision.value}]

\* TspModel::next_variable: next_layer is the iterator, a sequence of
\* states of which only the first is read.
next_variable(nv, next_layer) ==
    IF next_layer = <<>> THEN None
    ELSE IF Head(next_layer).depth < nv THEN Head(next_layer).depth ELSE None

\* for_each_in_domain that also offers city 0 among several candidates.
for_each_in_domain_keeps_zero(var, state) ==
    LET dest == state.must_visit \cup state.might_visit
    IN  IF Cardinality(dest) = 1
        THEN {[variable |-> var, value |-> 0]}
        ELSE {[variable |-> var, value |-> to] : to \in dest}

\* TspModel::for_each_in_domain: the decisions the callback is applied to.
for_each_in_domain(var, state) ==
    LET dest == state.must_visit \cup state.might_visit
    IN  IF Cardinality(dest) = 1
        THEN {[variable |-> var, value |-> 0]}
        ELSE {[variable |-> var, value |-> to] : to \in dest \ {0}}

\* merge whose last line is might.union(must) instead of might.diff(must).
merge_union_must(states) ==
    LET depth == Max({0} \cup {s.depth : s \in states})
        curr  == UNION {s.current : s \in states}
        must  == {c \in Set64Full : \A s \in states : c \in s.must_visit}
        might == UNION {s.might_visit : s \in states}
    IN  [depth |-> depth,
         current |-> curr,
         must_visit |-> must,
         might_visit |-> might \cup must]

\* merge that keeps in must_visit the cities owed by any of the states.
merge_must_of_any(states) ==
    LET depth == Max({0} \cup {s.depth : s \in states})
        curr  == UNION {s.current : s \in states}
        must  == UNION {s.must_visit : s \in states}
        might == UNION {s.might_visit : s \in states}
    IN  [depth |-> depth,
         current |-> curr,
         must_visit |-> must,
         might_visit |-> might \ must]

\* TspRelax::merge, over the states the iterator yields.
merge(states) ==
    LET depth == Max({0} \cup {s.depth : s \in states})
        curr  == UNION {s.current : s \in states}
        must  == {c \in Set64Full : \A s \in states : c \in s.must_visit}
        might == UNION {s.might_visit : s \in states}
    IN  [depth |-> depth,
         current |-> curr,
         must_visit |-> must,
         might_visit |-> might \ must]

\* TspRelax::relax
relax(src, dst, mrg, decision, cost) == cost

\* TspRanking::compare, as an Ordering.
cmp(a, b) == IF a < b THEN "Less" ELSE IF a = b THEN "Equal" ELSE "Greater"

then_with(o, p) == IF o = "Equal" THEN p ELSE o

reverse(o) == IF o = "Less" THEN "Greater" ELSE IF o = "Greater" THEN "Less" ELSE o

\* TspRanking::compare without the final reverse().
compare_ascending(a, b) ==
    then_with(
        then_with(
            cmp(Cardinality(a.must_visit), Cardinality(b.must_visit)),
            cmp(Cardinality(a.might_visit), Cardinality(b.might_visit))),
        cmp(Cardinality(a.current), Cardinality(b.current)))

compare(a, b) ==
    reverse(
        then_with(
            then_with(
                cmp(Cardinality(a.must_visit), Cardinality(b.must_visit)),
                cmp(Cardinality(a.might_visit), Cardinality(b.might_visit))),
            cmp(Cardinality(a.current), Cardinality(b.current))))

-----------------------------------------------------------------------------
(* Layers of a decision diagram over TspModel and TspRelax: each layer is  *)
(* branched on its variable, and a layer wider than `width` has all but    *)
(* width - 1 of its states merged into one.                                *)

NoMerge == [inputs |-> {}, result |-> initial_state(0)]

NoRanking == [a |-> initial_state(0), b |-> initial_state(0), ord |-> "None"]

\* The transitions out of the states of L on variable var.
Branches(var, L) ==
    {[src |-> s, decision |-> d, dst |-> transition(s, d)] :
        <<s, d>> \in UNION {{<<s, d>> : d \in for_each_in_domain(var, s)} : s \in L}}

DDInit ==
    /\ nb_variables \in 1..MaxN
    /\ width \in 1..MaxWidth
    /\ layer = {initial_state(nb_variables)}
    /\ relaxed = {}
    /\ edges = {}
    /\ merged = NoMerge
    /\ ranked = NoRanking
    /\ decided = <<>>

DDIdle ==
    /\ nb_variables = 0
    /\ width = 0
    /\ layer = {}
    /\ relaxed = {}
    /\ edges = {}
    /\ merged = NoMerge
    /\ ranked = NoRanking
    /\ decided = <<>>

\* One layer of the compilation: the layer's variable is asked of
\* next_variable, and every state is branched on every decision of its domain.
Branch ==
    /\ Cardinality(layer) <= width
    /\ \E first \in layer :
          LET var == next_variable(nb_variables, <<first>>)
          IN  /\ var # None
              /\ edges' = Branches(var, layer)
              /\ layer' = {e.dst : e \in edges'}
    /\ relaxed' = {}
    /\ merged' = NoMerge
    /\ UNCHANGED <<nb_variables, width, ranked, decided, genVars, solveVars>>

\* The layer exceeds the width: width - 1 states are kept and the others
\* are replaced by their merge.
MergeLayer ==
    /\ Cardinality(layer) > width
    /\ \E keep \in SUBSET layer :
          /\ Cardinality(keep) = width - 1
          /\ LET m == merge(layer \ keep)
             IN  /\ layer' = keep \cup {m}
                 /\ relaxed' = {m}
                 /\ merged' = [inputs |-> layer \ keep, result |-> m]
    /\ UNCHANGED <<nb_variables, width, edges, ranked, decided, genVars, solveVars>>

DDNext ==
    \/ Branch
    \/ MergeLayer

\* The states TspRanking is given in SpecRank: every TspState over the
\* cities 0..MaxRanked - 1 with a current city and with must_visit and
\* might_visit disjoint.
RankedStates ==
    LET Cities == 0..(MaxRanked - 1)
    IN  {[depth |-> 0, current |-> cur, must_visit |-> must, might_visit |-> might] :
            <<cur, must, might>> \in
                {x \in (SUBSET Cities) \X (SUBSET Cities) \X (SUBSET Cities) :
                    x[1] # {} /\ x[2] \cap x[3] = {}}}

RankInit ==
    /\ nb_variables = 0
    /\ width = 0
    /\ layer = {}
    /\ relaxed = {}
    /\ edges = {}
    /\ merged = NoMerge
    /\ ranked = NoRanking
    /\ decided = <<>>

\* The engine ranks two states of a layer or of the frontier.
Rank ==
    /\ ranked = NoRanking
    /\ \E a, b \in RankedStates :
          ranked' = [a |-> a, b |-> b, ord |-> compare(a, b)]
    /\ UNCHANGED <<nb_variables, width, layer, relaxed, edges, merged, decided,
                   genVars, solveVars>>

RankNext == Rank

\* One path of the exact diagram: the layer holds the path's last state.
PathInit ==
    /\ nb_variables \in 1..MaxPathN
    /\ width = 0
    /\ layer = {initial_state(nb_variables)}
    /\ relaxed = {}
    /\ edges = {}
    /\ merged = NoMerge
    /\ ranked = NoRanking
    /\ decided = <<>>

\* The variable is asked of next_variable and one decision of the state's
\* domain is taken; no state is ever merged.
Decide ==
    /\ \E s \in layer :
          LET var == next_variable(nb_variables, <<s>>)
          IN  /\ var # None
              /\ \E d \in for_each_in_domain(var, s) :
                    /\ layer' = {transition(s, d)}
                    /\ edges' = {[src |-> s, decision |-> d, dst |-> transition(s, d)]}
                    /\ decided' = Append(decided, d)
    /\ UNCHANGED <<nb_variables, width, relaxed, merged, ranked, genVars, solveVars>>

PathNext == Decide

-----------------------------------------------------------------------------
(* resolution/model.rs: transition_cost                                    *)

\* The factor of transition_cost: cost * 100_000.0
Scale == 100000

\* (cost * 100_000.0).round() as isize, for a matrix of whole numbers.
scaled(cost) == cost * Scale

\* TspModel::transition_cost with the negation left out.
transition_cost_not_negated(inst, state, decision) ==
    LET to == decision.value
        costs == {scaled(inst.distances[from][to]) : from \in state.current}
    IN  IF costs = {} THEN 0 ELSE Min(costs)

\* TspModel::transition_cost that takes the dearest of the current cities.
transition_cost_max(inst, state, decision) ==
    LET to == decision.value
        costs == {scaled(inst.distances[from][to]) : from \in state.current}
    IN  IF costs = {} THEN 0 ELSE -Max(costs)

\* TspModel::transition_cost
transition_cost(inst, state, decision) ==
    LET to == decision.value
        costs == {scaled(inst.distances[from][to]) : from \in state.current}
    IN  IF costs = {} THEN 0 ELSE -Min(costs)

\* TspModel::initial_value
initial_value == 0

-----------------------------------------------------------------------------
(* resolution/mod.rs: Solve::execute hands TspModel, TspRelax, TspRanking, *)
(* the width and the time budget to the branch-and-bound engine.  The      *)
(* engine explores one subproblem at a time: it compiles a restricted      *)
(* diagram, then, if that one dropped states, a relaxed one, and puts the  *)
(* last exact layer of the relaxed diagram on the frontier.                *)

Some(v) == [some |-> TRUE, v |-> v]

NoValue == [some |-> FALSE, v |-> 0]

\* An incumbent replaced by whatever is proposed last.
Improve_last_wins(opt, v) == Some(v)

\* The greater of an optional value and a value.
Improve(opt, v) == IF opt.some /\ opt.v >= v THEN opt ELSE Some(v)

\* An upper bound is a value or unbounded.
Unbounded == [some |-> FALSE, v |-> 0]

UbLeq(a, b) == b.some = FALSE \/ (a.some /\ a.v <= b.v)

UbMin(a, v) == IF a.some /\ a.v <= v THEN a ELSE Some(v)

RECURSIVE Pow2(_)
Pow2(k) == IF k = 0 THEN 1 ELSE 2 * Pow2(k - 1)

Abs(x) == IF x < 0 THEN -x ELSE x

\* The widths a solve is explored at: the narrowest, at which every layer
\* of more than one state is restricted or merged, and 2^n, at which none is.
Widths(nv) == {1, Pow2(nv)}

\* The instances: destinations on a line at whole positions, the travel cost
\* the distance between the positions plus a surcharge for going from a
\* destination to one of lower index (the matrix is not symmetric).
Instances(nv) ==
    {[destinations |-> nv,
      distances |-> [i \in 0..(nv - 1) |-> [j \in 0..(nv - 1) |->
                        Abs(pos[i] - pos[j]) + (IF i > j THEN ow ELSE 0)]]] :
        <<pos, ow>> \in [0..(nv - 1) -> 0..MaxCoord] \X (0..MaxOneWay)}

\* The edges out of the nodes of L on variable var, with their costs.
Edges(inst, var, L) ==
    {[src |-> x[1], decision |-> x[2], dst |-> transition(x[1].state, x[2]),
      cost |-> transition_cost(inst, x[1].state, x[2])] :
        x \in UNION {{<<nd, d>> : d \in for_each_in_domain(var, nd.state)} : nd \in L}}

\* The node of state s given the edges that reach it: its value is that of
\* the best path, and it is exact when every path to it is.
NodeOf(s, E) ==
    [state |-> s,
     value |-> Max({e.src.value + e.cost : e \in E}),
     exact |-> \A e \in E : e.src.exact]

\* The next layer: one node per state reached.
Expand(inst, var, L) ==
    LET E == Edges(inst, var, L)
    IN  {NodeOf(s, {e \in E : e.dst = s}) : s \in {e.dst : e \in E}}

\* The node that replaces the nodes `rest`: its state is their merge, its
\* in-edges are theirs with the cost that relax returns.
MergedNode(inst, var, L, rest) ==
    LET m == merge({nd.state : nd \in rest})
        E == {e \in Edges(inst, var, L) : e.dst \in {nd.state : nd \in rest}}
    IN  [state |-> m,
         value |-> Max({e.src.value + relax(e.src.state, e.dst, m, e.decision, e.cost) : e \in E}),
         exact |-> FALSE]

\* The layer `keep` with the merged node: a kept node of the same state is
\* reused, keeps the better value and is no longer exact.
WithMerged(keep, mn) ==
    LET same == {nd \in keep : nd.state = mn.state}
    IN  (keep \ same) \cup
        {[mn EXCEPT !.value = Max({mn.value} \cup {nd.value : nd \in same})]}

RootNode(sp) == [state |-> sp.state, value |-> sp.value, exact |-> TRUE]

NoSub == [state |-> initial_state(0), value |-> 0, ub |-> Unbounded]

NoBound == [root |-> initial_state(0), best |-> NoValue]

\* The variable of the layer after dd, or None: next_variable on an
\* iterator whose first state is `first`.
LayerDone == dd = {} \/ \A nd \in dd : next_variable(nb_variables, <<nd.state>>) = None

\* A worker thread that holds no subproblem.
IdleWorker ==
    [pc |-> "idle", sub |-> NoSub, found |-> NoValue, inexact |-> FALSE,
     rbest |-> NoValue, cutset |-> {}]

NoWorkers == [w \in 1..NbWorkers |-> IdleWorker]

SolveInit ==
    /\ spc = "pop"
    /\ nb_variables \in 1..MaxDestinations
    /\ instance \in Instances(nb_variables)
    /\ width \in Widths(nb_variables)
    /\ frontier = {[state |-> initial_state(nb_variables),
                    value |-> initial_value, ub |-> Unbounded]}
    /\ best_value = NoValue
    /\ is_exact = FALSE
    /\ expired = FALSE
    /\ sub = NoSub
    /\ dd = {}
    /\ inexact = FALSE
    /\ cutset = {}
    /\ bound = NoBound
    /\ stdout = <<>>
    /\ workers = NoWorkers
    /\ layer = {}
    /\ relaxed = {}
    /\ edges = {}
    /\ merged = NoMerge
    /\ ranked = NoRanking
    /\ decided = <<>>

SolveIdle ==
    /\ spc = "idle"
    /\ instance = [destinations |-> 0, distances |-> <<>>]
    /\ frontier = {}
    /\ best_value = NoValue
    /\ is_exact = FALSE
    /\ expired = FALSE
    /\ sub = NoSub
    /\ dd = {}
    /\ inexact = FALSE
    /\ cutset = {}
    /\ bound = NoBound
    /\ stdout = <<>>
    /\ workers = NoWorkers

\* The engine claims the subproblem of greatest upper bound.  If its bound
\* is no better than the incumbent, nothing on the frontier can improve it
\* and the frontier is emptied; else its restricted diagram is started.
Pop ==
    /\ spc = "pop"
    /\ \E sp \in frontier :
          /\ \A other \in frontier : UbLeq(other.ub, sp.ub)
          /\ IF best_value.some /\ UbLeq(sp.ub, Some(best_value.v))
             THEN /\ frontier' = {}
                  /\ UNCHANGED <<spc, sub, dd, inexact, cutset>>
             ELSE /\ frontier' = frontier \ {sp}
                  /\ sub' = sp
                  /\ dd' = {RootNode(sp)}
                  /\ inexact' = FALSE
                  /\ cutset' = {}
                  /\ spc' = "restricted"
    /\ UNCHANGED <<instance, best_value, is_exact, expired, bound, stdout, workers, genVars, ddVars>>

\* One layer of the restricted diagram: a layer over the width keeps
\* `width` of its nodes and drops the others.  Which nodes rank best among
\* equals is left to the engine's sort: any may be kept.
RestrictedLayer ==
    /\ spc = "restricted"
    /\ \E first \in dd :
          LET var == next_variable(nb_variables, <<first.state>>)
              next == Expand(instance, var, dd)
          IN  /\ var # None
              /\ IF Cardinality(next) > width
                 THEN /\ \E keep \in SUBSET next :
                            /\ Cardinality(keep) = width
                            /\ dd' = keep
                      /\ inexact' = TRUE
                 ELSE /\ dd' = next
                      /\ UNCHANGED inexact
    /\ UNCHANGED <<spc, instance, frontier, best_value, is_exact, expired, sub,
                   cutset, bound, stdout, workers, genVars, ddVars>>

\* The restricted diagram is complete: its best path is a tour and may
\* improve the incumbent.  If no state was dropped the subproblem is
\* closed, else its relaxed diagram is started.
RestrictedDone ==
    /\ spc = "restricted"
    /\ LayerDone
    /\ best_value' = IF dd = {} THEN best_value
                     ELSE Improve(best_value, Max({nd.value : nd \in dd}))
    /\ IF inexact
       THEN /\ spc' = "relaxed"
            /\ dd' = {RootNode(sub)}
            /\ cutset' = {RootNode(sub)}
       ELSE /\ spc' = "pop"
            /\ dd' = {}
            /\ cutset' = {}
    /\ inexact' = FALSE
    /\ UNCHANGED <<instance, frontier, is_exact, expired, sub, bound,
                   stdout, workers, genVars, ddVars>>

\* One layer of the relaxed diagram: a layer over the width, other than the
\* first below the root, keeps width - 1 of its nodes and merges the others
\* into one.  The last layer built before any merge is the cutset.
RelaxedLayer ==
    /\ spc = "relaxed"
    /\ \E first \in dd :
          LET var == next_variable(nb_variables, <<first.state>>)
              next == Expand(instance, var, dd)
          IN  /\ var # None
              /\ IF Cardinality(next) > width /\ var + 1 > sub.state.depth + 1
                 THEN /\ \E keep \in SUBSET next :
                            /\ Cardinality(keep) = width - 1
                            /\ dd' = WithMerged(keep,
                                        MergedNode(instance, var, dd, next \ keep))
                      /\ inexact' = TRUE
                      /\ UNCHANGED cutset
                 ELSE /\ dd' = next
                      /\ UNCHANGED inexact
                      /\ cutset' = IF inexact THEN cutset ELSE next
    /\ UNCHANGED <<spc, instance, frontier, best_value, is_exact, expired, sub,
                   bound, stdout, workers, genVars, ddVars>>

\* The nodes of the cutset as subproblems, bounded by the relaxed
\* diagram's best value.
Exposed(rbest) ==
    {[state |-> nd.state, value |-> nd.value, ub |-> UbMin(sub.ub, rbest)] :
        nd \in cutset}

\* Subproblems pushed on the frontier: one entry per state, that of the
\* better value.
Push(F, new) ==
    LET all == F \cup new
    IN  {sp \in all : \A other \in all :
            other.state = sp.state =>
                \/ other.value < sp.value
                \/ (other.value = sp.value /\ UbLeq(sp.ub, other.ub))}

\* The relaxed diagram is complete: its best path bounds the subproblem.
\* If nothing was merged the diagram is exact and its best path is a tour;
\* else the cutset's nodes whose bound beats the incumbent are pushed.
RelaxedDone ==
    /\ spc = "relaxed"
    /\ LayerDone
    /\ LET rbest == IF dd = {} THEN NoValue ELSE Some(Max({nd.value : nd \in dd}))
       IN  /\ bound' = [root |-> sub.state, best |-> rbest]
           /\ IF ~inexact
              THEN /\ best_value' = IF rbest.some THEN Improve(best_value, rbest.v)
                                    ELSE best_value
                   /\ UNCHANGED frontier
              ELSE /\ UNCHANGED best_value
                   /\ frontier' =
                        IF rbest.some
                        THEN Push(frontier,
                                  {sp \in Exposed(rbest.v) :
                                      ~(best_value.some /\ UbLeq(sp.ub, Some(best_value.v)))})
                        ELSE frontier
    /\ spc' = "pop"
    /\ dd' = {}
    /\ cutset' = {}
    /\ inexact' = FALSE
    /\ UNCHANGED <<instance, is_exact, expired, sub, stdout, workers, genVars, ddVars>>

\* The frontier is empty: the search is complete and the incumbent proved.
Complete ==
    /\ spc = "pop"
    /\ frontier = {}
    /\ spc' = "done"
    /\ is_exact' = TRUE
    /\ UNCHANGED <<instance, frontier, best_value, expired, sub, dd, inexact,
                   cutset, bound, stdout, workers, genVars, ddVars>>

\* The time budget, polled between two subproblems, has expired: the
\* engine returns the incumbent, not proved.
Cutoff ==
    /\ spc = "pop"
    /\ frontier # {}
    /\ spc' = "done"
    /\ expired' = TRUE
    /\ is_exact' = FALSE
    /\ UNCHANGED <<instance, frontier, best_value, sub, dd, inexact, cutset,
                   bound, stdout, workers, genVars, ddVars>>

RECURSIVE Gcd(_, _)
Gcd(a, b) == IF b = 0 THEN a ELSE Gcd(b, a % b)

\* The quotient num / den as a fraction in lowest terms, den positive.
Quotient(num, den) ==
    LET g == Gcd(Abs(num), Abs(den))
        sign == IF den < 0 THEN -1 ELSE 1
    IN  [num |-> (sign * num) \div g, den |-> Abs(den) \div g]

\* The divisor of the printed best value: v as f32 / -100_000_000.0
DisplayDivisor == -100000000

\* best_value.map(|v| v as f32 / -100_000_000.0).unwrap_or(0.0), the
\* quotient taken exactly.
displayed(best) ==
    IF best.some THEN Quotient(best.v, DisplayDivisor) ELSE Quotient(0, 1)

\* Solve::execute after maximize() has returned: it prints is_exact and the
\* best value, then unwraps the engine's best solution, which is None when
\* there is no incumbent, and prints its cities (not modelled).
Report ==
    /\ spc = "done"
    /\ stdout' = stdout \o
            <<[text |-> "is exact", flag |-> is_exact],
              [text |-> "best value", value |-> displayed(best_value)]>> \o
            (IF best_value.some THEN <<[text |-> "solution"]>> ELSE <<>>)
    /\ spc' = IF best_value.some THEN "exit" ELSE "panic"
    /\ UNCHANGED <<instance, frontier, best_value, is_exact, expired, sub, dd,
                   inexact, cutset, bound, workers, genVars, ddVars>>

SolveNext ==
    \/ Pop
    \/ RestrictedLayer
    \/ RestrictedDone
    \/ RelaxedLayer
    \/ RelaxedDone
    \/ Complete
    \/ Cutoff
    \/ Report

-----------------------------------------------------------------------------
(* The engine is a ParallelSolver: worker threads share the frontier and   *)
(* the incumbent behind one lock.  A worker claims a subproblem under the  *)
(* lock, compiles its diagrams on its own, and takes the lock again to     *)
(* propose what it found and to push the cutset.  A compilation touches    *)
(* nothing shared: it is one step, with every outcome the layer-by-layer   *)
(* compilation can have.                                                   *)

RECURSIVE RestrictedOutcomes(_, _, _, _)
\* The outcomes of the restricted diagram from layer L on: its best value
\* and whether a layer was restricted.
RestrictedOutcomes(inst, w, L, inex) ==
    IF L = {} THEN {[best |-> NoValue, inexact |-> inex]}
    ELSE LET first == CHOOSE nd \in L : TRUE
             var == next_variable(inst.destinations, <<first.state>>)
         IN  IF var = None
             THEN {[best |-> Some(Max({nd.value : nd \in L})), inexact |-> inex]}
             ELSE LET next == Expand(inst, var, L)
                  IN  IF Cardinality(next) > w
                      THEN UNION {RestrictedOutcomes(inst, w, keep, TRUE) :
                                    keep \in {k \in SUBSET next : Cardinality(k) = w}}
                      ELSE RestrictedOutcomes(inst, w, next, inex)

RECURSIVE RelaxedOutcomes(_, _, _, _, _, _)
\* The outcomes of the relaxed diagram of subproblem sp from layer L on: its
\* best value, whether a layer was merged, and the cutset.
RelaxedOutcomes(inst, w, sp, L, inex, cut) ==
    IF L = {} THEN {[best |-> NoValue, inexact |-> inex, cutset |-> cut]}
    ELSE LET first == CHOOSE nd \in L : TRUE
             var == next_variable(inst.destinations, <<first.state>>)
         IN  IF var = None
             THEN {[best |-> Some(Max({nd.value : nd \in L})),
                    inexact |-> inex, cutset |-> cut]}
             ELSE LET next == Expand(inst, var, L)
                  IN  IF Cardinality(next) > w /\ var + 1 > sp.state.depth + 1
                      THEN UNION {RelaxedOutcomes(inst, w, sp,
                                      WithMerged(keep, MergedNode(inst, var, L, next \ keep)),
                                      TRUE, cut) :
                                    keep \in {k \in SUBSET next : Cardinality(k) = w - 1}}
                      ELSE RelaxedOutcomes(inst, w, sp, next, inex,
                                           IF inex THEN cut ELSE next)

\* The nodes of a worker's cutset as subproblems.
ExposedBy(wk) ==
    {[state |-> nd.state, value |-> nd.value, ub |-> UbMin(wk.sub.ub, wk.rbest.v)] :
        nd \in wk.cutset}

ParInit ==
    /\ spc = "par"
    /\ nb_variables \in 1..MaxDestinations
    /\ instance \in Instances(nb_variables)
    /\ width \in Widths(nb_variables)
    /\ frontier = {[state |-> initial_state(nb_variables),
                    value |-> initial_value, ub |-> Unbounded]}
    /\ best_value = NoValue
    /\ is_exact = FALSE
    /\ expired = FALSE
    /\ sub = NoSub
    /\ dd = {}
    /\ inexact = FALSE
    /\ cutset = {}
    /\ bound = NoBound
    /\ stdout = <<>>
    /\ workers = NoWorkers
    /\ layer = {}
    /\ relaxed = {}
    /\ edges = {}
    /\ merged = NoMerge
    /\ ranked = NoRanking
    /\ decided = <<>>

\* Under the lock: an idle worker claims the subproblem of greatest upper
\* bound, or empties the frontier if that bound cannot beat the incumbent.
Claim(w) ==
    /\ spc = "par"
    /\ workers[w].pc = "idle"
    /\ \E sp \in frontier :
          /\ \A other \in frontier : UbLeq(other.ub, sp.ub)
          /\ IF best_value.some /\ UbLeq(sp.ub, Some(best_value.v))
             THEN /\ frontier' = {}
                  /\ UNCHANGED workers
             ELSE /\ frontier' = frontier \ {sp}
                  /\ workers' = [workers EXCEPT ![w] =
                                    [IdleWorker EXCEPT !.pc = "restricted", !.sub = sp]]
    /\ UNCHANGED <<spc, instance, best_value, is_exact, expired, sub, dd, inexact,
                   cutset, bound, stdout, genVars, ddVars>>

\* Outside the lock: the worker compiles the restricted diagram.
CompileRestricted(w) ==
    /\ workers[w].pc = "restricted"
    /\ \E o \in RestrictedOutcomes(instance, width, {RootNode(workers[w].sub)}, FALSE) :
          workers' = [workers EXCEPT ![w].pc = "propose",
                                     ![w].found = o.best,
                                     ![w].inexact = o.inexact]
    /\ UNCHANGED <<spc, instance, frontier, best_value, is_exact, expired, sub, dd,
                   inexact, cutset, bound, stdout, genVars, ddVars>>

\* Under the lock: the worker proposes the tour it found; the incumbent
\* changes only for a better one.
Propose(w) ==
    /\ workers[w].pc = "propose"
    /\ best_value' = IF workers[w].found.some
                     THEN Improve(best_value, workers[w].found.v)
                     ELSE best_value
    /\ workers' = [workers EXCEPT ![w].pc =
                      IF workers[w].inexact THEN "relaxed" ELSE "idle"]
    /\ UNCHANGED <<spc, instance, frontier, is_exact, expired, sub, dd, inexact,
                   cutset, bound, stdout, genVars, ddVars>>

\* Outside the lock: the worker compiles the relaxed diagram.
CompileRelaxed(w) ==
    /\ workers[w].pc = "relaxed"
    /\ \E o \in RelaxedOutcomes(instance, width, workers[w].sub,
                                {RootNode(workers[w].sub)}, FALSE,
                                {RootNode(workers[w].sub)}) :
          workers' = [workers EXCEPT ![w].pc = "enqueue",
                                     ![w].rbest = o.best,
                                     ![w].inexact = o.inexact,
                                     ![w].cutset = o.cutset]
    /\ UNCHANGED <<spc, instance, frontier, best_value, is_exact, expired, sub, dd,
                   inexact, cutset, bound, stdout, genVars, ddVars>>

\* Under the lock: an exact relaxed diagram proposes its best path; else
\* the cutset's nodes whose bound beats the incumbent are pushed.
Enqueue(w) ==
    /\ workers[w].pc = "enqueue"
    /\ LET wk == workers[w]
       IN  IF ~wk.inexact
           THEN /\ best_value' = IF wk.rbest.some THEN Improve(best_value, wk.rbest.v)
                                 ELSE best_value
                /\ UNCHANGED frontier
           ELSE /\ UNCHANGED best_value
                /\ frontier' =
                     IF wk.rbest.some
                     THEN Push(frontier,
                               {sp \in ExposedBy(wk) :
                                   ~(best_value.some /\ UbLeq(sp.ub, Some(best_value.v)))})
                     ELSE frontier
    /\ workers' = [workers EXCEPT ![w].pc = "idle"]
    /\ UNCHANGED <<spc, instance, is_exact, expired, sub, dd, inexact, cutset,
                   bound, stdout, genVars, ddVars>>

\* The frontier is empty and no worker holds a subproblem: the search is
\* complete.
ParComplete ==
    /\ spc = "par"
    /\ frontier = {}
    /\ \A w \in 1..NbWorkers : workers[w].pc = "idle"
    /\ spc' = "done"
    /\ is_exact' = TRUE
    /\ UNCHANGED <<instance, frontier, best_value, expired, sub, dd, inexact,
                   cutset, bound, stdout, workers, genVars, ddVars>>

\* The time budget is found expired by a worker about to claim: no
\* subproblem is claimed any more.
ParCutoff ==
    /\ spc = "par"
    /\ frontier # {}
    /\ \E w \in 1..NbWorkers : workers[w].pc = "idle"
    /\ spc' = "stopping"
    /\ expired' = TRUE
    /\ UNCHANGED <<instance, frontier, best_value, is_exact, sub, dd, inexact,
                   cutset, bound, stdout, workers, genVars, ddVars>>

\* Every worker has finished its subproblem: the engine returns the
\* incumbent, not proved.
ParStopped ==
    /\ spc = "stopping"
    /\ \A w \in 1..NbWorkers : workers[w].pc = "idle"
    /\ spc' = "done"
    /\ is_exact' = FALSE
    /\ UNCHANGED <<instance, frontier, best_value, expired, sub, dd, inexact,
                   cutset, bound, stdout, workers, genVars, ddVars>>

ParNext ==
    \/ \E w \in 1..NbWorkers : Claim(w)
    \/ \E w \in 1..NbWorkers : CompileRestricted(w)
    \/ \E w \in 1..NbWorkers : Propose(w)
    \/ \E w \in 1..NbWorkers : CompileRelaxed(w)
    \/ \E w \in 1..NbWorkers : Enqueue(w)
    \/ ParComplete
    \/ ParCutoff
    \/ ParStopped
    \/ Report

-----------------------------------------------------------------------------
(* generation.rs                                                           *)

\* The sizes of rng(): a u128 is 16 bytes, the seed array 32 bytes of 8 bits.
SeedBytes == 16

KeyBytes == 32

ByteValues == 256

RECURSIVE le_byte(_, _)
\* Byte i (0-based) of to_le_bytes(): the i-th digit in base 256, least
\* significant first.
le_byte(v, i) == IF i = 0 THEN v % ByteValues ELSE le_byte(v \div ByteValues, i - 1)

\* u128::to_le_bytes
to_le_bytes(v) == [i \in 1..SeedBytes |-> le_byte(v, i - 1)]

\* u128::to_be_bytes
to_be_bytes(v) == [i \in 1..SeedBytes |-> le_byte(v, SeedBytes - i)]

\* rng() whose second pass does not reverse the array.
seed_key_not_reversed(init) ==
    LET zero  == [i \in 1..KeyBytes |-> 0]
        be    == to_be_bytes(init)
        le    == to_le_bytes(init)
        pass1 == [i \in 1..KeyBytes |-> IF i <= Len(be) THEN be[i] ELSE zero[i]]
    IN  [i \in 1..KeyBytes |-> IF i <= Len(le) THEN le[i] ELSE pass1[i]]

\* rng(), lines 91-93: the array starts at zero; the first pass writes the
\* big-endian bytes from the front, the second the little-endian bytes
\* from the back.
seed_key(init) ==
    LET zero  == [i \in 1..KeyBytes |-> 0]
        be    == to_be_bytes(init)
        le    == to_le_bytes(init)
        pass1 == [i \in 1..KeyBytes |-> IF i <= Len(be) THEN be[i] ELSE zero[i]]
    IN  [i \in 1..KeyBytes |->
            IF KeyBytes + 1 - i <= Len(le) THEN le[KeyBytes + 1 - i] ELSE pass1[i]]

\* GenerateInstance::rng that reads the clock although a seed is given.
rng_new_reads_clock(sd, clk) == [key |-> clk, pos |-> 0]

\* GenerateInstance::rng: the seed if one is given, else the clock.  The
\* stream is identified by its key; pos counts the samples drawn so far.
rng_new(sd, clk) == [key |-> IF sd = NoSeed THEN clk ELSE sd, pos |-> 0]

\* GenerateInstance::random_centroid: two uniform samples, longitude first.
\* A sample is identified by the stream's key and the sample's position.
random_centroid(r, i) ==
    [centroid |-> i, key |-> r.key, lon |-> r.pos, lat |-> r.pos + 1,
     snapped |-> FALSE, moved |-> FALSE]

\* GenerateInstance::generate_centroids: nb_centroids calls of
\* random_centroid on the same stream.
generate_centroids(r, k) ==
    [i \in 1..k |-> random_centroid([r EXCEPT !.pos = r.pos + 2 * (i - 1)], i - 1)]

\* GenerateInstance::random_pos_close_to: two normal samples around the
\* centroid c, longitude first.
random_pos_close_to(r, i, c) ==
    [centroid |-> i, around |-> c, key |-> r.key, lon |-> r.pos, lat |-> r.pos + 1,
     snapped |-> FALSE, moved |-> FALSE]

\* The number of cities generate_cities draws around centroid i (0-based):
\* the `n` of its loop body.
cities_around(n, k, i) ==
    LET cities_per_centroids == n \div k
        cities_in_first_centroid ==
            IF cities_per_centroids * k = n
            THEN cities_per_centroids
            ELSE cities_per_centroids + 1
    IN  IF i = 0 THEN cities_in_first_centroid ELSE cities_per_centroids

\* GenerateInstance::generate_cities: for each centroid in order, push
\* cities_around(..) positions drawn from the stream.
RECURSIVE generate_cities_from(_, _, _, _, _, _)
generate_cities_from(r, n, k, cs, i, acc) ==
    IF i >= Len(cs) THEN acc
    ELSE LET cnt == cities_around(n, k, i)
             drawn == [j \in 1..cnt |->
                         random_pos_close_to(
                             [r EXCEPT !.pos = r.pos + 2 * (Len(acc) + j - 1)],
                             i, cs[i + 1])]
         IN  generate_cities_from(r, n, k, cs, i + 1, acc \o drawn)

generate_cities(r, n, k, cs) == generate_cities_from(r, n, k, cs, 0, <<>>)

\* The oracle's answer to a nearest request: the snapped location, which
\* is the location asked about when the oracle is the identity.
nearest(orc, loc) ==
    [loc EXCEPT !.snapped = TRUE, !.moved = (orc # "identity")]

\* The oracle's table for the given locations and annotation: the cell for
\* (i, j) is identified by the annotation and the pair.
table(locs, kind) ==
    [i \in 1..Len(locs) |-> [j \in 1..Len(locs) |-> <<kind, i, j>>]]

GenInit ==
    /\ command \in {"generate", "tspgen"}
    /\ oracle \in {"osrm", "identity"}
    /\ gpc = "rng"
    /\ nb_cities \in (1..MaxCities) \cup {SetBits + 1}
    /\ nb_centroids \in 0..MaxCentroids
    /\ force_routable \in BOOLEAN
    /\ duration \in IF command = "generate" THEN BOOLEAN ELSE {FALSE}
    /\ seed \in {NoSeed} \cup (0..MaxSeed)
    /\ clock \in 0..MaxClock
    /\ rng = [key |-> 0, pos |-> 0]
    /\ cipher_key = <<>>
    /\ centroids = <<>>
    /\ destinations = <<>>
    /\ requests = <<>>
    /\ distances = <<>>

\* The seeds and clock readings rng() is applied to in SpecKey: every value
\* up to MaxKeySeed, and values whose third and fourth bytes are not zero.
KeySeeds == (0..MaxKeySeed) \cup {Pow2(k) + k : k \in 16..30}

KeyInit ==
    /\ command = "generate"
    /\ oracle = "osrm"
    /\ gpc = "key"
    /\ nb_cities = 0
    /\ nb_centroids = 0
    /\ force_routable = FALSE
    /\ duration = FALSE
    /\ seed \in {NoSeed} \cup KeySeeds
    /\ clock \in IF seed = NoSeed THEN KeySeeds ELSE {0}
    /\ rng = [key |-> 0, pos |-> 0]
    /\ cipher_key = <<>>
    /\ centroids = <<>>
    /\ destinations = <<>>
    /\ requests = <<>>
    /\ distances = <<>>

GenIdle ==
    /\ command = "none"
    /\ oracle = "none"
    /\ gpc = "idle"
    /\ nb_cities = 0
    /\ nb_centroids = 0
    /\ force_routable = FALSE
    /\ duration = FALSE
    /\ seed = NoSeed
    /\ clock = 0
    /\ rng = [key |-> 0, pos |-> 0]
    /\ cipher_key = <<>>
    /\ centroids = <<>>
    /\ destinations = <<>>
    /\ requests = <<>>
    /\ distances = <<>>

\* generate(), lines 72-73: create the stream and draw the centroids.
GenerateCentroids ==
    /\ gpc = "rng"
    /\ LET r == rng_new(seed, clock)
       IN  /\ centroids' = generate_centroids(r, nb_centroids)
           /\ rng' = [r EXCEPT !.pos = 2 * nb_centroids]
           /\ cipher_key' = seed_key(r.key)
    /\ gpc' = "snap_centroids"
    /\ requests' = <<>>
    /\ UNCHANGED <<ddVars, solveVars, command, oracle, nb_cities, nb_centroids, force_routable, duration, seed,
                   clock, destinations, distances>>

\* routable_cities(&centroids), one iteration of its loop: one nearest
\* request, awaited, then the answer replaces the centroid.
SnapCentroid ==
    /\ gpc = "snap_centroids"
    /\ \E i \in 1..Len(centroids) :
          /\ ~centroids[i].snapped
          /\ \A j \in 1..(i - 1) : centroids[j].snapped
          /\ requests' = Append(requests, [kind |-> "nearest", loc |-> centroids[i]])
          /\ centroids' = [centroids EXCEPT ![i] = nearest(oracle, centroids[i])]
    /\ UNCHANGED <<ddVars, solveVars, command, oracle, cipher_key, gpc, nb_cities, nb_centroids, force_routable, duration,
                   seed, clock, rng, destinations, distances>>

\* generate() that snaps the cities whether force_routable is set or not.
GenerateCities_always_snaps ==
    /\ gpc = "snap_centroids"
    /\ \A i \in 1..Len(centroids) : centroids[i].snapped
    /\ IF nb_centroids = 0
       THEN /\ gpc' = "panic"
            /\ UNCHANGED <<destinations, rng>>
       ELSE /\ destinations' = generate_cities(rng, nb_cities, nb_centroids, centroids)
            /\ rng' = [rng EXCEPT !.pos = rng.pos + 2 * Len(destinations')]
            /\ gpc' = "snap_cities"
    /\ UNCHANGED <<ddVars, solveVars, command, oracle, cipher_key, nb_cities, nb_centroids, force_routable, duration, seed,
                   clock, centroids, requests, distances>>

\* generate(), line 75: generate_cities on the snapped centroids.  The
\* division nb_cities / nb_centroids panics when nb_centroids is 0.
GenerateCities ==
    /\ gpc = "snap_centroids"
    /\ \A i \in 1..Len(centroids) : centroids[i].snapped
    /\ IF nb_centroids = 0
       THEN /\ gpc' = "panic"
            /\ UNCHANGED <<destinations, rng>>
       ELSE /\ destinations' = generate_cities(rng, nb_cities, nb_centroids, centroids)
            /\ rng' = [rng EXCEPT !.pos = rng.pos + 2 * Len(destinations')]
            /\ gpc' = IF force_routable THEN "snap_cities" ELSE "table"
    /\ UNCHANGED <<ddVars, solveVars, command, oracle, cipher_key, nb_cities, nb_centroids, force_routable, duration, seed,
                   clock, centroids, requests, distances>>

\* routable_cities(&destinations), one iteration of its loop.
SnapCity ==
    /\ gpc = "snap_cities"
    /\ \E i \in 1..Len(destinations) :
          /\ ~destinations[i].snapped
          /\ \A j \in 1..(i - 1) : destinations[j].snapped
          /\ requests' = Append(requests, [kind |-> "nearest", loc |-> destinations[i]])
          /\ destinations' = [destinations EXCEPT ![i] = nearest(oracle, destinations[i])]
    /\ UNCHANGED <<ddVars, solveVars, command, oracle, cipher_key, gpc, nb_cities, nb_centroids, force_routable, duration,
                   seed, clock, rng, centroids, distances>>

\* routable_cities(&destinations) returns: every city has been snapped.
SnapCitiesDone ==
    /\ gpc = "snap_cities"
    /\ \A i \in 1..Len(destinations) : destinations[i].snapped
    /\ gpc' = "table"
    /\ UNCHANGED <<ddVars, solveVars, command, oracle, cipher_key, nb_cities, nb_centroids, force_routable, duration, seed,
                   clock, rng, centroids, destinations, requests, distances>>

\* travel_distance_matrix: one table request with both annotations; the
\* result is the durations table when `duration` is set, else the
\* distances table.  generate() then returns the Instance.
TravelDistanceMatrix ==
    /\ command = "generate"
    /\ gpc = "table"
    /\ requests' = Append(requests, [kind |-> "table", loc |-> destinations])
    /\ distances' = IF duration THEN table(destinations, "durations")
                                ELSE table(destinations, "distances")
    /\ gpc' = "done"
    /\ UNCHANGED <<ddVars, solveVars, command, oracle, cipher_key, nb_cities, nb_centroids, force_routable, duration, seed,
                   clock, rng, centroids, destinations>>

\* main.rs, TspGen::travel_distance_matrix: TspGen has no duration flag; the
\* result is the durations table.  TspGen::generate then returns.
TspGenTravelDistanceMatrix ==
    /\ command = "tspgen"
    /\ gpc = "table"
    /\ requests' = Append(requests, [kind |-> "table", loc |-> destinations])
    /\ distances' = table(destinations, "durations")
    /\ gpc' = "done"
    /\ UNCHANGED <<ddVars, solveVars, command, oracle, cipher_key, nb_cities, nb_centroids, force_routable,
                   duration, seed, clock, rng, centroids, destinations>>

\* rng() alone, on a seed or a clock reading of one or several bytes.
Rng ==
    /\ gpc = "key"
    /\ LET r == rng_new(seed, clock)
       IN  /\ rng' = r
           /\ cipher_key' = seed_key(r.key)
    /\ gpc' = "keyed"
    /\ UNCHANGED <<ddVars, solveVars, command, oracle, nb_cities, nb_centroids, force_routable,
                   duration, seed, clock, centroids, destinations, requests, distances>>

KeyNext == Rng

GenNext ==
    \/ GenerateCentroids
    \/ SnapCentroid
    \/ GenerateCities
    \/ SnapCity
    \/ SnapCitiesDone
    \/ TravelDistanceMatrix
    \/ TspGenTravelDistanceMatrix

-----------------------------------------------------------------------------
(* The specifications.                                                     *)

InitGen == GenInit /\ DDIdle /\ SolveIdle

SpecGen == InitGen /\ [][GenNext]_vars

Init == DDInit /\ GenIdle /\ SolveIdle

Spec == Init /\ [][DDNext]_vars

InitSolve == SolveInit /\ GenIdle

SpecSolve == InitSolve /\ [][SolveNext]_vars

InitRank == RankInit /\ GenIdle /\ SolveIdle

SpecRank == InitRank /\ [][RankNext]_vars

InitKey == KeyInit /\ DDIdle /\ SolveIdle

SpecKey == InitKey /\ [][KeyNext]_vars

InitPath == PathInit /\ GenIdle /\ SolveIdle

SpecPath == InitPath /\ [][PathNext]_vars

InitPar == ParInit /\ GenIdle

SpecPar == InitPar /\ [][ParNext]_vars

-----------------------------------------------------------------------------
(* Claims about the generator.                                             *)

\* The number of destinations drawn around centroid i (0-based).
DrawnAround(i) ==
    Cardinality({j \in 1..Len(destinations) : destinations[j].centroid = i})

CitiesDrawn == gpc \in {"snap_cities", "table", "done"}

\* C1: once generate_cities has run (nb_cities >= 1, nb_centroids >= 1), each
\* of the first (n mod k) centroids has ceil(n/k) cities and each of the
\* remaining centroids has floor(n/k) cities, and the destinations are
\* grouped in centroid order.
C1_BalancedDistribution ==
    (CitiesDrawn /\ nb_centroids >= 1) =>
        /\ \A i \in 0..(nb_centroids - 1) :
              DrawnAround(i) =
                  IF i < nb_cities % nb_centroids
                  THEN (nb_cities \div nb_centroids) + 1
                  ELSE nb_cities \div nb_centroids
        /\ \A a, b \in 1..Len(destinations) :
              a <= b => destinations[a].centroid <= destinations[b].centroid

\* C2: the generated Instance has exactly nb_cities destinations, and the
\* table request is made for exactly those locations.
C2_CountIsNbCities ==
    /\ (CitiesDrawn /\ nb_centroids >= 1) => Len(destinations) = nb_cities
    /\ gpc = "done" =>
          /\ Len(distances) = nb_cities
          /\ requests[Len(requests)].kind = "table"
          /\ Len(requests[Len(requests)].loc) = nb_cities

\* The locations of a sequence as they were drawn, before any snapping.
Drawn(locs) ==
    [i \in 1..Len(locs) |-> [locs[i] EXCEPT !.snapped = FALSE, !.moved = FALSE]]

\* C13: when a seed is given, the centroids and the cities drawn, the
\* requests made and the matrix returned are those of a run with the same
\* seed and parameters started at any other time: the centroids and cities
\* are the samples of the stream keyed by the seed, whatever the clock.
C13_SeedDeterminism ==
    (seed # NoSeed /\ gpc \notin {"idle", "rng"}) =>
        \A clk \in 0..MaxClock :
            LET r  == rng_new(seed, clk)
                cs == generate_centroids(r, nb_centroids)
                snapped_cs == [i \in 1..Len(cs) |-> nearest(oracle, cs[i])]
                ds == generate_cities([r EXCEPT !.pos = 2 * nb_centroids],
                                      nb_cities, nb_centroids, snapped_cs)
            IN  /\ Drawn(centroids) = cs
                /\ rng.key = r.key
                /\ CitiesDrawn => Drawn(destinations) = ds
                /\ \A q \in 1..Len(requests) :
                      requests[q].kind = "nearest" =>
                          requests[q].loc.key = seed
                /\ gpc = "done" =>
                      \E kind \in {"durations", "distances"} :
                          distances = table(destinations, kind)

\* A run with a seed, started at a time other than 0, has snapped its
\* cities and returned the Instance.
C13_Witness ==
    /\ seed # NoSeed
    /\ clock >= 1
    /\ clock # seed
    /\ gpc = "done"
    /\ force_routable
    /\ nb_centroids >= 2
    /\ Len(destinations) >= 3

\* C14: the matrix of the generated Instance is the oracle's durations
\* table when the duration flag is set and its distances table when it is
\* not.
C14_MatrixModeSwitch ==
    gpc = "done" =>
        distances = table(destinations,
                          IF duration THEN "durations" ELSE "distances")

\* C15: when nb_cities > 64 or nb_centroids = 0, generate aborts before any
\* sample is drawn and any request is made, and returns no Instance.
C15_ParameterErrors ==
    (gpc # "idle" /\ (nb_cities > 64 \/ nb_centroids = 0)) =>
        /\ rng.pos = 0
        /\ centroids = <<>>
        /\ destinations = <<>>
        /\ requests = <<>>
        /\ gpc # "done"
        /\ gpc \notin {"snap_cities", "table"}

\* The number of locations of locs the oracle has answered for.
Snapped(locs) == Cardinality({i \in 1..Len(locs) : locs[i].snapped})

\* C23: one nearest request per centroid, in centroid order, is made before
\* any city is drawn, and the cities are drawn around the snapped
\* centroids; nearest requests for the cities, one per city in order, are
\* made if and only if force_routable is set; one table request is made,
\* after every nearest request; and when the oracle's nearest is the
\* identity and force_routable is set, the destinations are the samples
\* drawn.
C23_OracleCallOrder ==
    LET k    == nb_centroids
        nreq == Len(requests)
        asked(q) == [requests[q].loc EXCEPT !.snapped = FALSE]
    IN  /\ gpc = "snap_centroids" =>
              /\ destinations = <<>>
              /\ rng.pos = 2 * k
              /\ nreq = Snapped(centroids)
              /\ \A q \in 1..nreq :
                    /\ requests[q].kind = "nearest"
                    /\ centroids[q].snapped
                    /\ requests[q].loc = Drawn(centroids)[q]
        /\ CitiesDrawn =>
              /\ nreq >= k
              /\ \A q \in 1..k :
                    /\ requests[q].kind = "nearest"
                    /\ requests[q].loc = Drawn(centroids)[q]
              /\ \A j \in 1..Len(destinations) :
                    /\ destinations[j].around = centroids[destinations[j].centroid + 1]
                    /\ destinations[j].around.snapped
              /\ ~force_routable =>
                    \A q \in (k + 1)..nreq : requests[q].kind = "table"
        /\ gpc = "snap_cities" =>
              /\ force_routable
              /\ nreq = k + Snapped(destinations)
              /\ \A j \in 1..Snapped(destinations) :
                    /\ requests[k + j].kind = "nearest"
                    /\ destinations[j].snapped
                    /\ requests[k + j].loc = Drawn(destinations)[j]
        /\ gpc = "table" =>
              nreq = k + (IF force_routable THEN Len(destinations) ELSE 0)
        /\ gpc = "done" =>
              /\ nreq = k + (IF force_routable THEN Len(destinations) ELSE 0) + 1
              /\ requests[nreq].kind = "table"
              /\ requests[nreq].loc = destinations
              /\ \A q \in 1..(nreq - 1) : requests[q].kind = "nearest"
              /\ force_routable =>
                    \A j \in 1..Len(destinations) :
                        /\ requests[k + j].loc = Drawn(destinations)[j]
                        /\ oracle = "identity" =>
                              [destinations[j] EXCEPT !.snapped = FALSE] = asked(k + j)

\* A run with force_routable and an identity oracle has returned an
\* Instance of several cities around several centroids.
C23_Witness ==
    /\ gpc = "done"
    /\ force_routable
    /\ oracle = "identity"
    /\ nb_centroids >= 2
    /\ Len(destinations) >= 3
    /\ Len(requests) = nb_centroids + Len(destinations) + 1

-----------------------------------------------------------------------------
(* Claims about TspState, transition and merge (specification Spec).       *)

HasMerged == merged.inputs # {}

\* The decision values for_each_in_domain offers at state s.
Offered(s) == {d.value : d \in for_each_in_domain(s.depth, s)}

\* C3: merge soundness.  For the states S just merged and any s in S, every
\* decision offered at s is offered at merge(S), and the must_visit set of
\* the merged state's successor is a subset of that of s's successor.
C3_MergeSoundness ==
    HasMerged =>
        \A s \in merged.inputs :
            \A d \in for_each_in_domain(s.depth, s) :
                /\ d.value \in Offered(merged.result)
                /\ transition(merged.result, d).must_visit
                       \subseteq transition(s, d).must_visit

\* C4: the might_visit set of merge(S) is (the union of the might_visit sets
\* of S, with the union of the must_visit sets of S) minus the intersection
\* of the must_visit sets of S.
C4_MergedMightVisit ==
    HasMerged =>
        LET S == merged.inputs
            allMight == UNION {s.might_visit : s \in S}
            allMust  == UNION {s.must_visit : s \in S}
            agree    == {c \in allMust : \A s \in S : c \in s.must_visit}
        IN  merged.result.might_visit = (allMight \cup allMust) \ agree

\* C7: in every state of every layer, whether the initial state, the
\* destination of a transition or the result of a merge, must_visit and
\* might_visit are disjoint.
C7_Disjoint ==
    /\ \A s \in layer : s.must_visit \cap s.might_visit = {}
    /\ \A e \in edges : e.dst.must_visit \cap e.dst.might_visit = {}
    /\ HasMerged => merged.result.must_visit \cap merged.result.might_visit = {}

\* A layer built by transitions out of a merged state holds a state that a
\* second merge returned, with cities still to visit.
C7_Witness ==
    /\ HasMerged
    /\ Cardinality(merged.inputs) >= 2
    /\ merged.result \in layer
    /\ merged.result.must_visit # {}
    /\ \E e \in edges : Cardinality(e.src.current) >= 2

\* C8: the initial state has depth 0, current = {0}, must_visit = {0..n-1}
\* and might_visit empty; the destination of every transition, and every
\* state of a layer that merge did not return, has exactly one current city.
C8_ExactStates ==
    /\ \A s \in layer :
          s.depth = 0 =>
              /\ s.current = {0}
              /\ s.must_visit = 0..(nb_variables - 1)
              /\ s.might_visit = {}
              /\ layer = {s}
    /\ \A e \in edges : Cardinality(e.dst.current) = 1
    /\ \A s \in layer \ relaxed : Cardinality(s.current) = 1

\* A transition out of a merged state (several current cities) has been made.
C8_Witness ==
    \E e \in edges :
        /\ Cardinality(e.src.current) >= 2
        /\ e.dst \in layer \ relaxed

\* C9: every transition made from s on decision d gives depth s.depth + 1,
\* current {d.value}, and must_visit and might_visit those of s without
\* d.value; d.value is in neither set of the result.
C9_TransitionFrame ==
    \A e \in edges :
        LET v == e.decision.value
        IN  /\ e.dst.depth = e.src.depth + 1
            /\ e.dst.current = {v}
            /\ e.dst.must_visit = e.src.must_visit \ {v}
            /\ e.dst.might_visit = e.src.might_visit \ {v}
            /\ v \notin e.dst.must_visit \cup e.dst.might_visit

\* A transition on a city of must_visit has been made from a state that
\* still owes other cities.
C9_Witness ==
    \E e \in edges :
        /\ e.decision.value \in e.src.must_visit
        /\ e.src.depth >= 1
        /\ Cardinality(e.src.must_visit) >= 3

\* C10: value 0 is decided only as the closing move: every transition on
\* value 0 leaves a state whose must_visit and might_visit hold city 0
\* alone, at depth n - 1.
C10_ZeroOnlyClosing ==
    \A e \in edges :
        e.decision.value = 0 =>
            /\ e.src.must_visit \cup e.src.might_visit = {0}
            /\ e.src.depth = nb_variables - 1

\* The cities state s may still visit.
Dest(s) == s.must_visit \cup s.might_visit

\* The decisions of the claimed domain of state s on variable var.
DomainRule(var, s) ==
    IF Cardinality(Dest(s)) = 1
    THEN {[variable |-> var, value |-> 0]}
    ELSE {[variable |-> var, value |-> c] : c \in {x \in Dest(s) : x # 0}}

\* C18: the edges out of every branched state carry exactly the decisions of
\* the domain rule (value 0 alone when one city is left, else every city
\* left but 0), on the layer's variable; and for every state of the layer
\* for_each_in_domain offers exactly those, nothing when no city is left.
C18_DomainRule ==
    /\ \A s \in {e.src : e \in edges} :
          {e.decision : e \in {x \in edges : x.src = s}} = DomainRule(s.depth, s)
    /\ \A s \in layer :
          /\ for_each_in_domain(s.depth, s) = DomainRule(s.depth, s)
          /\ Dest(s) = {} => for_each_in_domain(s.depth, s) = {}

\* One layer was branched from a state with one city left and from a state
\* with several, among them city 0.
C18_Witness ==
    /\ \E e \in edges :
          /\ Cardinality(Dest(e.src)) = 1
          /\ e.decision.value = 0
    /\ \E e \in edges :
          /\ Cardinality(Dest(e.src)) >= 3
          /\ 0 \in Dest(e.src)

\* C19: the state merge returns for the states S has the greatest depth of
\* S, the union of the current sets of S and the intersection of the
\* must_visit sets of S.
C19_MergeFields ==
    HasMerged =>
        LET S == merged.inputs
            m == merged.result
        IN  /\ \E s \in S : m.depth = s.depth
            /\ \A s \in S : s.depth <= m.depth
            /\ \A c \in 0..(nb_variables - 1) :
                  /\ c \in m.current <=> \E s \in S : c \in s.current
                  /\ c \in m.must_visit <=> \A s \in S : c \in s.must_visit
            /\ m.current \cup m.must_visit \subseteq 0..(nb_variables - 1)

\* States of different current cities that owe different cities, some of
\* them owed by all, have been merged.
C19_Witness ==
    /\ HasMerged
    /\ merged.result.depth >= 1
    /\ \E s, t \in merged.inputs :
          /\ s.current # t.current
          /\ s.must_visit # t.must_visit
          /\ Cardinality(s.must_visit \cap t.must_visit) >= 2
    /\ Cardinality(merged.result.must_visit) >= 2

-----------------------------------------------------------------------------
(* Claims about the solve (specification SpecSolve).                       *)

RECURSIVE Perms(_)
\* The sequences that hold each member of S once.
Perms(S) ==
    IF S = {} THEN {<<>>}
    ELSE UNION {{<<x>> \o p : p \in Perms(S \ {x})} : x \in S}

RECURSIVE PathCost(_, _, _)
\* The cost of leaving `from` through the cities of `path` in order.
PathCost(inst, from, path) ==
    IF path = <<>> THEN 0
    ELSE inst.distances[from][Head(path)] + PathCost(inst, Head(path), Tail(path))

\* The costs of the Hamiltonian cycles through city 0: from 0 through the
\* other cities in some order and back to 0.
TourCosts(inst) ==
    {PathCost(inst, 0, p \o <<0>>) : p \in Perms(1..(inst.destinations - 1))}

\* The objective of the cheapest cycle in the engine's frame: scaled and negated.
Optimum(inst) == -(Min(TourCosts(inst)) * 100000)

RootState == [depth |-> 0, current |-> {0},
              must_visit |-> 0..(nb_variables - 1), might_visit |-> {}]

\* C5: the best value of a completed relaxed diagram of the whole problem is
\* an upper bound of the optimum: it exists and is at least the negated
\* scaled cost of the cheapest Hamiltonian cycle through city 0.
C5_RelaxedIsUpperBound ==
    (spc # "idle" /\ bound.root = RootState) =>
        /\ bound.best.some
        /\ bound.best.v >= Optimum(instance)

\* C6: when the width is at least 2^n and the time budget has not expired,
\* the solve ends with is_exact true and best_value the negated scaled cost
\* of the cheapest Hamiltonian cycle through city 0.
C6_ExactWhenUnbounded ==
    (spc \in {"done", "exit", "panic"} /\ ~expired /\ width >= Pow2(nb_variables)) =>
        /\ is_exact
        /\ best_value.some
        /\ best_value.v = Optimum(instance)

\* A solve of four destinations whose cycles differ in cost, on a matrix
\* that is not symmetric, has ended within the budget at full width.
C6_Witness ==
    /\ spc = "done"
    /\ ~expired
    /\ width >= Pow2(nb_variables)
    /\ nb_variables >= 4
    /\ Cardinality(TourCosts(instance)) >= 3
    /\ instance.distances[1][0] # instance.distances[0][1]
    /\ best_value.some

\* C11: for every state of a diagram under compilation with a non-empty
\* current and every decision d, transition_cost is the negation of 100000
\* times the least distance from a current city to d.value; and it is at
\* least the transition_cost of every state whose current is a non-empty
\* part of that current.
C11_TransitionCost ==
    spc \in {"restricted", "relaxed"} =>
        \A nd \in dd : \A v \in 0..(nb_variables - 1) :
            LET s == nd.state
                d == [variable |-> s.depth, value |-> v]
            IN  s.current # {} =>
                  /\ transition_cost(instance, s, d) =
                        -(100000 * Min({instance.distances[from][v] : from \in s.current}))
                  /\ \A c \in (SUBSET s.current) \ {{}} :
                        transition_cost(instance, s, d) >=
                            transition_cost(instance, [s EXCEPT !.current = c], d)

\* A merged node of several current cities, at different distances from
\* the city its edge goes to, is in a relaxed diagram.
C11_Witness ==
    /\ spc = "relaxed"
    /\ \E nd \in dd :
          /\ Cardinality(nd.state.current) >= 2
          /\ \E a, b \in nd.state.current :
                instance.distances[a][0] < instance.distances[b][0]
          /\ [variable |-> nd.state.depth, value |-> 0]
                \in for_each_in_domain(nd.state.depth, nd.state)


\* C12: the best value the solve command prints for a solver objective v is
\* v / -100000.
C12_ScalingRoundTrip ==
    (spc \in {"exit", "panic"} /\ best_value.some) =>
        /\ Len(stdout) >= 2
        /\ stdout[2].text = "best value"
        /\ stdout[2].value = Quotient(best_value.v, -100000)

\* C16: when the engine stops on the time budget, the solve command ends
\* normally, having printed is_exact = false and the incumbent, also when
\* there is no incumbent.
C16_BudgetExhaustion ==
    /\ (expired /\ spc \in {"exit", "panic"}) =>
          /\ spc = "exit"
          /\ stdout[1] = [text |-> "is exact", flag |-> FALSE]
    /\ expired => ~is_exact


-----------------------------------------------------------------------------
(* Claims about the parallel solve (specification SpecPar).                *)

-----------------------------------------------------------------------------
(* Claims about TspRanking (specification SpecRank).                       *)

\* The three cardinalities compare looks at, in its order.
Work(s) == <<Cardinality(s.must_visit), Cardinality(s.might_visit),
             Cardinality(s.current)>>

\* x is before y in the order of the triples, first component first.
Before(x, y) ==
    \/ x[1] < y[1]
    \/ x[1] = y[1] /\ x[2] < y[2]
    \/ x[1] = y[1] /\ x[2] = y[2] /\ x[3] < y[3]

\* C20: compare(a, b) is one of the three orderings; it is Equal exactly when
\* the cardinalities of must_visit, might_visit and current agree; it is
\* Less exactly when a has more of the first of them that differs (the state
\* with more work first); it is the reverse of compare(b, a); and the order
\* is transitive.
C20_RankingPreorder ==
    ranked.ord # "None" =>
        LET a == ranked.a
            b == ranked.b
            o == ranked.ord
            Leq(x, y) == compare(x, y) \in {"Less", "Equal"}
        IN  /\ o \in {"Less", "Equal", "Greater"}
            /\ o = "Equal" <=> Work(a) = Work(b)
            /\ o = "Less" <=> Before(Work(b), Work(a))
            /\ compare(b, a) = reverse(o)
            /\ \A c \in RankedStates : (Leq(a, b) /\ Leq(b, c)) => Leq(a, c)

\* Two states that agree on must_visit and might_visit and differ in the
\* number of current cities have been compared.
C20_Witness ==
    /\ ranked.ord = "Less"
    /\ Cardinality(ranked.a.must_visit) = Cardinality(ranked.b.must_visit)
    /\ Cardinality(ranked.a.might_visit) = Cardinality(ranked.b.might_visit)
    /\ ranked.a.might_visit # {}
    /\ Cardinality(ranked.a.current) > Cardinality(ranked.b.current)


-----------------------------------------------------------------------------
(* Claims about the key of the random stream (specification SpecKey).      *)

\* The number rng() builds the key from.
KeyedFrom == IF seed = NoSeed THEN clock ELSE seed

\* The digit of weight 256^e of v; the values of the model are below 256^4.
Digit(v, e) == IF e >= 4 THEN 0 ELSE (v \div (256 ^ e)) % 256

\* C21: the key has 32 bytes; byte i is the seed's i-th byte, most
\* significant first, and byte 31 - i is the seed's i-th byte, least
\* significant first, for 0 <= i < 16; the second 16 bytes equal the first
\* 16; every byte is written by one of the two passes; and no other seed
\* gives the same key.
C21_SeedToKey ==
    gpc = "keyed" =>
        /\ Len(cipher_key) = 32
        /\ \A i \in 0..15 :
              /\ cipher_key[i + 1] = Digit(KeyedFrom, 15 - i)
              /\ cipher_key[(31 - i) + 1] = Digit(KeyedFrom, i)
        /\ \A i \in 1..32 : i <= SeedBytes \/ KeyBytes + 1 - i <= SeedBytes
        /\ SubSeq(cipher_key, 17, 32) = SubSeq(cipher_key, 1, 16)
        /\ \A other \in KeySeeds : seed_key(other) = cipher_key => other = KeyedFrom

\* The key of a seed whose four low bytes are not all equal has been built.
C21_Witness ==
    /\ gpc = "keyed"
    /\ seed # NoSeed
    /\ seed >= 16777216
    /\ cipher_key[16] # 0
    /\ cipher_key[13] # 0
    /\ cipher_key[16] # cipher_key[13]


-----------------------------------------------------------------------------
(* Claims about the paths of the exact diagram (specification SpecPath).   *)

\* The path cannot be extended: there is no next variable, or the domain
\* of the last state is empty.
Maximal ==
    \A s \in layer :
        LET var == next_variable(nb_variables, <<s>>)
        IN  var = None \/ for_each_in_domain(var, s) = {}

\* C22: on every path from initial_state without merge, decision i is on
\* variable i; at depth d < n the state has n - d cities in must_visit and a
\* non-empty domain; the values for variables 0..n-2 are the cities 1..n-1,
\* each once; the value for variable n-1 is 0; at depth n next_variable
\* returns None; and a path that cannot be extended has n decisions.
C22_ExactPaths ==
    \A s \in layer :
        LET n == nb_variables
            d == s.depth
        IN  /\ Len(decided) = d
            /\ d <= n
            /\ \A i \in 1..Len(decided) : decided[i].variable = i - 1
            /\ d < n =>
                  /\ Cardinality(s.must_visit) = n - d
                  /\ next_variable(n, <<s>>) = d
                  /\ for_each_in_domain(d, s) # {}
            /\ \A i \in 1..Len(decided) :
                  IF i <= n - 1
                  THEN /\ decided[i].value \in 1..(n - 1)
                       /\ \A j \in 1..Len(decided) : decided[j].value = decided[i].value => j = i
                  ELSE decided[i].value = 0
            /\ d = n =>
                  /\ next_variable(n, <<s>>) = None
                  /\ {decided[i].value : i \in 1..(n - 1)} = 1..(n - 1)
                  /\ s.current = {0}
                  /\ s.must_visit = {}
            /\ Maximal => Len(decided) = n

\* A complete tour of five cities has been decided.
C22_Witness ==
    /\ nb_variables >= 5
    /\ Len(decided) = nb_variables
    /\ Maximal
    /\ decided[1].value > decided[2].value


=============================================================================
